---- MODULE Spec2Model ----
(***************************************************************************)
(* A model of the LRU cache of lrucache.go: a hash index over a doubly     *)
(* linked recency list, guarded by one mutex, with an optional TTL and a   *)
(* background goroutine (pruneExpiredEntries) that sweeps expired entries. *)
(*                                                                         *)
(* Entries live in a heap of addresses; address 0 is the nil pointer.      *)
(* Every foreground method is Lock, body, Unlock (deferred).  Put is cut   *)
(* into its three phases (store, capacity check, unlink of the tail) so    *)
(* that the states inside its critical section are visible.                *)
(***************************************************************************)
EXTENDS Integers, Sequences, FiniteSets, TLC

\* ------------------------------------------------------------------ bounds
MaxCapacity == 3
MaxTTL == 1
MaxClock == 2

Keys == {"A", "B", "C"}
Values == {1, 2}
Procs == {"p1", "p2"}

\* the callers of the specification with every method; the second caller
\* takes part where callers compete (SpecConc)
Callers == {"p1"}

\* one spare address beyond the largest number of entries a Put can hold
NAddr == MaxCapacity + 2
Addr == 1..NAddr

VARIABLES
  c,      \* the lrucache struct and the entries it points to
  mutex,  \* the embedded sync.Mutex: "free", a caller, or "sweeper"
  fg,     \* per caller: position inside a method and its locals
  sw,     \* the pruneExpiredEntries goroutine: position and locals
  now,    \* time.Now().Unix()
  last,   \* history: the operation that has just returned and its result;
          \* (for Clear and a tick, the number of entries removed);
          \* forgotten when the mutex is taken again
  lru,    \* history: keys and last Put values, most recently touched first
  own,    \* history: the keys each concurrent caller is allowed to put
  puts    \* history: the distinct keys put, while nothing but Get, Put, Size
          \* and Stop has been called on a cache without TTL

vars == <<c, mutex, fg, sw, now, last, lru, own, puts>>

\* ------------------------------------------------------------ entry, heap
ZeroEntry == [next |-> 0, prev |-> 0, key |-> "", value |-> 0, expireTime |-> 0]

EmptyHash == [k \in Keys |-> 0]

KeysOf(S) == {k \in Keys : S.hash[k] # 0}

\* F applied to the value of x.  TLC evaluates an operator's argument anew
\* each time the body mentions it; here the argument is evaluated once.
Once(F(_), x) == CHOOSE r \in {F(v) : v \in {x}} : TRUE

RECURSIVE Closure(_, _)
Closure(S, R) ==
  LET Rest(R2) == IF R2 = R THEN R ELSE Closure(S, R2)
  IN  Once(Rest, (R \cup {S.heap[a].next : a \in R} \cup {S.heap[a].prev : a \in R}) \ {0})

\* entries the program can still reach: from the struct and from locals
Live(S, locals) ==
  Closure(S, ({S.head, S.tail} \cup {S.hash[k] : k \in Keys} \cup locals) \ {0})

\* the entries on the list, in list order: head, head.next, ... up to nil;
\* the walk stops at an entry it has already visited
RECURSIVE WalkFrom(_, _, _)
WalkFrom(S, e, acc0) ==
  LET Rest(acc) ==
        IF e = 0 \/ (\E i \in 1..Len(acc) : acc[i] = e)
        THEN acc
        ELSE WalkFrom(S, S.heap[e].next, Append(acc, e))
  IN  Once(Rest, acc0)

Walk(S) == WalkFrom(S, S.head, <<>>)

RECURSIVE Ascending(_)
Ascending(A0) ==
  LET Rest(A) ==
        IF A = {} THEN <<>>
        ELSE LET m == CHOOSE a \in A : \A b \in A : a <= b
             IN  <<m>> \o Ascending(A \ {m})
  IN  Once(Rest, A0)

\* Addresses carry no meaning in Go (no pointer arithmetic, no ordering) and
\* an unreachable entry is garbage, so a state stands for every heap that
\* differs from it by a renaming of addresses.  canon picks the
\* representative: the entries on the list are numbered in list order, the
\* other reachable entries follow, everything else is free.  It returns
\* the renamed cache and the renaming, for the locals that hold addresses.
canon(S0, locals) ==
  LET Renamed(S) ==
        LET Reachable(L) ==
              LET Listed(W) ==
                    LET Ordered(order) ==
                          LET Renaming(perm) ==
                                [c |-> [S EXCEPT
                                          !.head = perm[S.head],
                                          !.tail = perm[S.tail],
                                          !.hash = [k \in Keys |-> perm[S.hash[k]]],
                                          !.heap = [i \in Addr |->
                                                     IF i <= Len(order)
                                                     THEN [S.heap[order[i]] EXCEPT
                                                             !.next = perm[@],
                                                             !.prev = perm[@]]
                                                     ELSE ZeroEntry]],
                                 perm |-> perm]
                          IN  Once(Renaming,
                                   [a \in 0..NAddr |->
                                      IF a \in L
                                      THEN CHOOSE i \in 1..Len(order) : order[i] = a
                                      ELSE 0])
                    IN  Once(Ordered, W \o Ascending(L \ {W[i] : i \in 1..Len(W)}))
              IN  Once(Listed, Walk(S))
        IN  Once(Reachable, Live(S, locals))
  IN  Once(Renamed, S0)

\* &entry{...}: a fresh address
alloc(S, locals) ==
  LET Fresh(L) == CHOOSE a \in Addr : /\ a \notin L
                                      /\ \A b \in Addr : b \notin L => a <= b
  IN  Once(Fresh, Live(S, locals))

\* -------------------------------------------------------- list primitives
unlink_keeps_head(S, e) ==
  LET S1 == IF S.heap[e].prev = 0
            THEN S
            ELSE [S EXCEPT !.heap[S.heap[e].prev].next = S.heap[e].next]
      S2 == IF S1.heap[e].next = 0
            THEN [S1 EXCEPT !.tail = S1.heap[e].prev]
            ELSE [S1 EXCEPT !.heap[S1.heap[e].next].prev = S1.heap[e].prev]
  IN  [S2 EXCEPT !.heap[e].prev = 0, !.heap[e].next = 0]

unlink(S, e) ==
  LET S1 == IF S.heap[e].prev = 0
            THEN [S EXCEPT !.head = S.heap[e].next]
            ELSE [S EXCEPT !.heap[S.heap[e].prev].next = S.heap[e].next]
      S2 == IF S1.heap[e].next = 0
            THEN [S1 EXCEPT !.tail = S1.heap[e].prev]
            ELSE [S1 EXCEPT !.heap[S1.heap[e].next].prev = S1.heap[e].prev]
  IN  [S2 EXCEPT !.heap[e].prev = 0, !.heap[e].next = 0]

prepend_no_back_link(S, e) ==
  LET S1 == [S EXCEPT !.heap[e].next = S.head]
      S3 == [S1 EXCEPT !.head = e]
  IN  IF S3.tail = 0 THEN [S3 EXCEPT !.tail = e] ELSE S3

prepend(S, e) ==
  LET S1 == [S EXCEPT !.heap[e].next = S.head]
      S2 == IF S1.head # 0 THEN [S1 EXCEPT !.heap[S1.head].prev = e] ELSE S1
      S3 == [S2 EXCEPT !.head = e]
  IN  IF S3.tail = 0 THEN [S3 EXCEPT !.tail = e] ELSE S3

\* delete(c.hash, key)
delete(S, key) == [S EXCEPT !.hash[key] = 0]

\* ------------------------------------------------------------ constructors
\* the tests that end a constructor in panic (lines 41-43, 54-59)
NewPanics(capacity) == capacity <= 0

NewWithTTLPanics_capacity_only(capacity, ttlSeconds) == capacity <= 0

NewWithTTLPanics(capacity, ttlSeconds) == capacity <= 0 \/ ttlSeconds < 0

\* the struct the constructors return (lines 44-47, 60-64)
New(capacity) ==
  [capacity |-> capacity, ttlSeconds |-> 0, stopped |-> FALSE,
   head |-> 0, tail |-> 0, hash |-> EmptyHash,
   heap |-> [a \in Addr |-> ZeroEntry]]

NewWithTTL(capacity, ttlSeconds) ==
  [capacity |-> capacity, ttlSeconds |-> ttlSeconds, stopped |-> FALSE,
   head |-> 0, tail |-> 0, hash |-> EmptyHash,
   heap |-> [a \in Addr |-> ZeroEntry]]

\* ------------------------------------------------- methods, as functions
\* each returns the cache after the call and the value returned
Size(S) == Cardinality(KeysOf(S))

Capacity(S) == S.capacity

TTLSeconds(S) == S.ttlSeconds

Get_no_promote(S, key) ==
  LET e == S.hash[key]
  IN  IF e = 0 THEN [c |-> S, ret |-> 0] ELSE [c |-> S, ret |-> S.heap[e].value]

\* a Get that extends the lifetime of the entry it finds
Get_refreshes(S, key) ==
  LET e == S.hash[key]
      S1 == IF S.ttlSeconds > 0
            THEN [S EXCEPT !.heap[e].expireTime = now + S.ttlSeconds]
            ELSE S
  IN  IF e = 0
      THEN [c |-> S, ret |-> 0]
      ELSE [c |-> IF e # S1.head THEN prepend(unlink(S1, e), e) ELSE S1,
            ret |-> S.heap[e].value]

Get(S, key) ==
  LET e == S.hash[key]
  IN  IF e = 0
      THEN [c |-> S, ret |-> 0]
      ELSE [c |-> IF e # S.head THEN prepend(unlink(S, e), e) ELSE S,
            ret |-> S.heap[e].value]

PutStore_keeps_value(S, key, value, e, t) ==
  LET old == S.hash[key]
  IN  IF old # 0
      THEN LET S2 == IF S.ttlSeconds > 0
                     THEN [S EXCEPT !.heap[old].expireTime = t + S.ttlSeconds]
                     ELSE S
           IN  IF old # S2.head THEN prepend(unlink(S2, old), old) ELSE S2
      ELSE LET S1 == [S EXCEPT !.heap[e] = [ZeroEntry EXCEPT !.key = key, !.value = value]]
               S2 == IF S1.ttlSeconds > 0
                     THEN [S1 EXCEPT !.heap[e].expireTime = t + S1.ttlSeconds]
                     ELSE S1
           IN  [prepend(S2, e) EXCEPT !.hash[key] = e]

\* Put up to and including the insertion in the hash (lines 136-155);
\* e is the address a new entry gets, t the clock
PutStore(S, key, value, e0, t) ==
  LET old == S.hash[key]
      Insert(e) ==
        LET S1 == [S EXCEPT !.heap[e] = [ZeroEntry EXCEPT !.key = key, !.value = value]]
            S2 == IF S1.ttlSeconds > 0
                  THEN [S1 EXCEPT !.heap[e].expireTime = t + S1.ttlSeconds]
                  ELSE S1
        IN  [prepend(S2, e) EXCEPT !.hash[key] = e]
  IN  IF old # 0
      THEN LET S1 == [S EXCEPT !.heap[old].value = value]
               S2 == IF S1.ttlSeconds > 0
                     THEN [S1 EXCEPT !.heap[old].expireTime = t + S1.ttlSeconds]
                     ELSE S1
           IN  IF old # S2.head THEN prepend(unlink(S2, old), old) ELSE S2
      ELSE Once(Insert, e0)

\* the capacity test of Put (line 157)
OverCapacity_off_by_one(S) == Size(S) > S.capacity + 1

OverCapacity_at_capacity(S) == Size(S) >= S.capacity

\* a test that counts only the entries that have not expired
OverCapacity_live_only(S) ==
  Cardinality({k \in KeysOf(S) : S.heap[S.hash[k]].expireTime > now}) > S.capacity

OverCapacity(S) == Size(S) > S.capacity

\* the eviction of Put (lines 159-160), last being the entry read from c.tail
PutUnlinkLast(S, lst) == delete(unlink(S, lst), S.heap[lst].key)

Put(S, key, value, e, t) ==
  LET Rest(S1) ==
        IF S.hash[key] = 0 /\ OverCapacity(S1) THEN PutUnlinkLast(S1, S1.tail) ELSE S1
  IN  Once(Rest, PutStore(S, key, value, e, t))

\* without the nil test the method panics on a miss: ret -1 stands for the panic
Remove_no_nil_check(S, key) ==
  LET e == S.hash[key]
  IN  IF e = 0
      THEN [c |-> S, ret |-> -1]
      ELSE [c |-> delete(unlink(S, e), key), ret |-> S.heap[e].value]

Remove_keeps_index(S, key) ==
  LET e == S.hash[key]
  IN  IF e = 0
      THEN [c |-> S, ret |-> 0]
      ELSE [c |-> unlink(S, e), ret |-> S.heap[e].value]

Remove(S, key) ==
  LET e == S.hash[key]
  IN  IF e = 0
      THEN [c |-> S, ret |-> 0]
      ELSE [c |-> delete(unlink(S, e), key), ret |-> S.heap[e].value]

Clear_keeps_tail(S) == [S EXCEPT !.head = 0, !.hash = EmptyHash]

Clear(S) == [S EXCEPT !.head = 0, !.tail = 0, !.hash = EmptyHash]

Stop_drops_head(S) == [S EXCEPT !.stopped = TRUE, !.head = 0]

Stop(S) == [S EXCEPT !.stopped = TRUE]

\* a loop that reads e.next after the unlink, which has set it to nil
RECURSIVE sweep_no_snapshot(_, _, _)
sweep_no_snapshot(S0, e, t) ==
  IF e = 0
  THEN S0
  ELSE LET Rest(S) ==
             LET S1 == IF S.heap[e].expireTime <= t
                       THEN delete(unlink(S, e), S.heap[e].key)
                       ELSE S
             IN  sweep_no_snapshot(S1, S1.heap[e].next, t)
       IN  Once(Rest, S0)

\* the loop of one sweeper tick (lines 87-95), t being the tick's now
RECURSIVE sweep(_, _, _)
sweep(S0, e, t) ==
  IF e = 0
  THEN S0
  ELSE LET Rest(S) ==
             LET next == S.heap[e].next
             IN  sweep(IF S.heap[e].expireTime <= t
                       THEN delete(unlink(S, e), S.heap[e].key)
                       ELSE S,
                       next, t)
       IN  Once(Rest, S0)

\* the critical section of one tick (lines 83-95)
tick_ignores_stopped(S, t) == sweep(S, S.head, t)

tick(S, t) == IF S.stopped THEN S ELSE sweep(S, S.head, t)

\* ------------------------------------------------------- history (ghost)
AbsTouch(l, k) ==
  SelectSeq(l, LAMBDA r : r.key = k) \o SelectSeq(l, LAMBDA r : r.key # k)

AbsPut(l, k, v) ==
  <<[key |-> k, value |-> v]>> \o SelectSeq(l, LAMBDA r : r.key # k)

AbsRestrict(l, K) == SelectSeq(l, LAMBDA r : r.key \in K)

\* expired: whether the entry the operation removed had reached its expireTime
\* pos: the place on the list, counted from the head, of the entry a Remove
\* removed, or of the first entry a tick removed; 0 if none
NoOp == [op |-> "none", key |-> "", ret |-> 0, evicted |-> "", expired |-> FALSE,
         pos |-> 0]

\* the place of entry e on the list, 0 if it is not on it
PosOf(S, e) ==
  LET W == Walk(S)
  IN  IF \E i \in 1..Len(W) : W[i] = e THEN CHOOSE i \in 1..Len(W) : W[i] = e ELSE 0

\* the place of the first entry of the list whose expireTime is at most t
FirstExpired(S, t) ==
  LET W == Walk(S)
      X == {i \in 1..Len(W) : S.heap[W[i]].expireTime <= t}
  IN  IF X = {} THEN 0 ELSE CHOOSE i \in X : \A j \in X : i <= j

NoPuts == [only |-> FALSE, keys |-> {}]

Done(op, key, ret, evicted) ==
  [op |-> op, key |-> key, ret |-> ret, evicted |-> evicted, expired |-> FALSE,
   pos |-> 0]

\* ---------------------------------------------------------------- callers
Idle == [pc |-> "idle", key |-> "", last |-> 0, size0 |-> 0, isnew |-> FALSE]

Locals == {fg[p].last : p \in Procs}

\* c.Lock() of a foreground method
Lock_no_exclusion(p) ==
  /\ fg[p].pc = "idle"
  /\ mutex' = p
  /\ fg' = [fg EXCEPT ![p].pc = "locked"]
  /\ last' = NoOp
  /\ UNCHANGED <<c, sw, now, lru, own, puts>>

Lock(p) ==
  /\ mutex = "free"
  /\ fg[p].pc = "idle"
  /\ mutex' = p
  /\ fg' = [fg EXCEPT ![p].pc = "locked"]
  /\ last' = NoOp
  /\ UNCHANGED <<c, sw, now, lru, own, puts>>

InBody(p) == fg[p].pc = "locked"

\* the deferred c.Unlock(), as a change of the callers' record
Released(p) == [fg EXCEPT ![p] = Idle]

\* the state after a step that left the cache as S and the callers as F
Commit(S, F) ==
  \E r \in {canon(S, {F[p].last : p \in Procs})} :
    /\ c' = r.c
    /\ fg' = [p \in Procs |-> [F[p] EXCEPT !.last = r.perm[@]]]

CallGet(p, key) ==
  /\ InBody(p)
  /\ LET r == Get(c, key)
     IN  /\ Commit(r.c, Released(p))
         /\ last' = Done("Get", key, r.ret, "")
         /\ lru' = IF key \in KeysOf(c) THEN AbsTouch(lru, key) ELSE lru
  /\ mutex' = "free"
  /\ UNCHANGED <<sw, now, own, puts>>

\* Put, lines 134-155: an existing key returns here, a new one goes on
CallPut(p, key, value) ==
  /\ InBody(p)
  /\ \E S \in {PutStore(c, key, value, alloc(c, Locals), now)} :
         /\ lru' = AbsPut(lru, key, value)
         /\ IF c.hash[key] # 0
            THEN /\ Commit(S, Released(p))
                 /\ mutex' = "free"
                 /\ last' = Done("Put", key, 0, "")
            ELSE /\ Commit(S, [fg EXCEPT ![p] = [pc |-> "put_check", key |-> key,
                                                 last |-> 0, size0 |-> Size(c),
                                                 isnew |-> TRUE]])
                 /\ UNCHANGED <<mutex, last>>
  /\ puts' = IF puts.only THEN [puts EXCEPT !.keys = @ \cup {key}] ELSE puts
  /\ UNCHANGED <<sw, now, own>>

\* Put, lines 157-158: the capacity test and the read of c.tail
PutCheck(p) ==
  /\ fg[p].pc = "put_check"
  /\ IF OverCapacity(c)
     THEN /\ fg' = [fg EXCEPT ![p].pc = "put_unlink", ![p].last = c.tail]
          /\ UNCHANGED <<mutex, last>>
     ELSE /\ fg' = Released(p)
          /\ mutex' = "free"
          /\ last' = Done("Put", fg[p].key, 0, "")
  /\ UNCHANGED <<c, sw, now, lru, own, puts>>

\* Put, lines 159-161: the eviction
PutUnlink(p) ==
  /\ fg[p].pc = "put_unlink"
  /\ LET S == PutUnlinkLast(c, fg[p].last)
     IN  /\ Commit(S, Released(p))
         /\ lru' = AbsRestrict(lru, KeysOf(S))
         /\ last' = [Done("Put", fg[p].key, 0, c.heap[fg[p].last].key) EXCEPT
                        !.expired = c.ttlSeconds > 0
                                    /\ c.heap[fg[p].last].expireTime <= now]
  /\ mutex' = "free"
  /\ UNCHANGED <<sw, now, own, puts>>

CallRemove(p, key) ==
  /\ InBody(p)
  /\ LET r == Remove(c, key)
     IN  /\ Commit(r.c, Released(p))
         /\ last' = [Done("Remove", key, r.ret, "") EXCEPT
                        !.expired = c.hash[key] # 0 /\ c.ttlSeconds > 0
                                    /\ c.heap[c.hash[key]].expireTime <= now,
                        !.pos = IF c.hash[key] # 0 THEN PosOf(c, c.hash[key]) ELSE 0]
         /\ lru' = AbsRestrict(lru, Keys \ {key})
  /\ mutex' = "free"
  /\ puts' = NoPuts
  /\ UNCHANGED <<sw, now, own>>

CallSize(p) ==
  /\ InBody(p)
  /\ last' = Done("Size", "", Size(c), "")
  /\ fg' = Released(p)
  /\ mutex' = "free"
  /\ UNCHANGED <<c, sw, now, lru, own, puts>>

CallClear(p) ==
  /\ InBody(p)
  /\ Commit(Clear(c), Released(p))
  /\ last' = Done("Clear", "", Size(c), "")
  /\ lru' = <<>>
  /\ mutex' = "free"
  /\ puts' = NoPuts
  /\ UNCHANGED <<sw, now, own>>

CallStop(p) ==
  /\ InBody(p)
  /\ c' = Stop(c)
  /\ last' = Done("Stop", "", 0, "")
  /\ fg' = Released(p)
  /\ mutex' = "free"
  /\ UNCHANGED <<sw, now, lru, own, puts>>

\* ---------------------------------------------------------------- sweeper
SwIdle(pc) == [pc |-> pc, stopped |-> FALSE, now |-> 0]

SwStart_ignores_ttl ==
  /\ sw.pc = "start"
  /\ \E seen \in {c.stopped, FALSE} :
       sw' = IF seen THEN SwIdle("done") ELSE SwIdle("loop")
  /\ UNCHANGED <<c, mutex, fg, now, last, lru, own, puts>>

\* line 70: c.ttlSeconds is immutable; c.stopped is read without the lock,
\* so a Stop that has already run may or may not be seen
SwStart ==
  /\ sw.pc = "start"
  /\ \E seen \in {c.stopped, FALSE} :
       sw' = IF c.ttlSeconds = 0 \/ seen THEN SwIdle("done") ELSE SwIdle("loop")
  /\ UNCHANGED <<c, mutex, fg, now, last, lru, own, puts>>

SwLoop_inverted ==
  /\ sw.pc = "loop"
  /\ sw' = IF ~sw.stopped THEN SwIdle("done") ELSE [sw EXCEPT !.pc = "sleep"]
  /\ UNCHANGED <<c, mutex, fg, now, last, lru, own, puts>>

\* lines 75-78: the test of the local flag, then the sleep begins
SwLoop ==
  /\ sw.pc = "loop"
  /\ sw' = IF sw.stopped THEN SwIdle("done") ELSE [sw EXCEPT !.pc = "sleep"]
  /\ UNCHANGED <<c, mutex, fg, now, last, lru, own, puts>>

\* lines 78-80: the sleep ends and now is sampled, before the lock
SwWake ==
  /\ sw.pc = "sleep"
  /\ sw' = [sw EXCEPT !.pc = "lock", !.now = now]
  /\ UNCHANGED <<c, mutex, fg, now, last, lru, own, puts>>

\* line 81
SwLock ==
  /\ sw.pc = "lock"
  /\ mutex = "free"
  /\ mutex' = "sweeper"
  /\ sw' = [sw EXCEPT !.pc = "tick"]
  /\ last' = NoOp
  /\ UNCHANGED <<c, fg, now, lru, own, puts>>

SwTick_forgets_flag ==
  /\ sw.pc = "tick"
  /\ LET S == tick(c, sw.now)
     IN  /\ Commit(S, fg)
         /\ lru' = AbsRestrict(lru, KeysOf(S))
         /\ last' = IF c.stopped THEN last
                    ELSE Done("Tick", "", Size(c) - Size(S), "")
  /\ sw' = [pc |-> "loop", stopped |-> FALSE, now |-> 0]
  /\ mutex' = "free"
  /\ UNCHANGED <<now, own, puts>>

\* lines 82-96: the critical section of the tick and the deferred Unlock
SwTick ==
  /\ sw.pc = "tick"
  /\ LET S == tick(c, sw.now)
     IN  /\ Commit(S, fg)
         /\ lru' = AbsRestrict(lru, KeysOf(S))
         /\ last' = IF c.stopped THEN last
                    ELSE [Done("Tick", "", Size(c) - Size(S), "") EXCEPT
                            !.pos = FirstExpired(c, sw.now)]
  /\ sw' = [pc |-> "loop", stopped |-> c.stopped, now |-> 0]
  /\ mutex' = "free"
  /\ UNCHANGED <<now, own, puts>>

Sweeper == SwStart \/ SwLoop \/ SwWake \/ SwLock \/ SwTick

\* ------------------------------------------------------------------ clock
ClockTick ==
  /\ now < MaxClock
  /\ now' = now + 1
  /\ UNCHANGED <<c, mutex, fg, sw, last, lru, own, puts>>

\* ---------------------------------------------------------- specification
InitRest ==
  /\ mutex = "free"
  /\ fg = [p \in Procs |-> Idle]
  /\ now = 1
  /\ last = NoOp
  /\ lru = <<>>
  /\ puts = [only |-> c.ttlSeconds = 0, keys |-> {}]

Init ==
  /\ \E capacity \in 1..MaxCapacity :
       \/ c = New(capacity) /\ sw = SwIdle("absent")
       \/ \E ttl \in 0..MaxTTL : c = NewWithTTL(capacity, ttl) /\ sw = SwIdle("start")
  /\ own = [p \in Procs |-> {}]
  /\ InitRest

Foreground ==
  \E p \in Callers :
    \/ Lock(p)
    \/ \E key \in Keys : CallGet(p, key)
    \/ \E key \in Keys, value \in Values : CallPut(p, key, value)
    \/ PutCheck(p)
    \/ PutUnlink(p)
    \/ \E key \in Keys : CallRemove(p, key)
    \/ CallSize(p)
    \/ CallClear(p)
    \/ CallStop(p)

Next == Foreground \/ Sweeper \/ ClockTick

Spec == Init /\ [][Next]_vars

\* ------------------------------------------- callers that only put (C8, C9)
\* Each caller owns a set of keys, disjoint from the other callers' keys,
\* and puts keys of its own any number of times; TTL is disabled.
InitConc ==
  /\ \E capacity \in 1..MaxCapacity : c = New(capacity)
  /\ sw = SwIdle("absent")
  /\ own \in [Procs -> SUBSET Keys]
  /\ \A p, q \in Procs : p # q => own[p] \cap own[q] = {}
  /\ InitRest

ConcPut(p, key, value) ==
  /\ key \in own[p]
  /\ CallPut(p, key, value)

NextConc ==
  \E p \in Procs :
    \/ Lock(p)
    \/ \E key \in Keys, value \in Values : ConcPut(p, key, value)
    \/ PutCheck(p)
    \/ PutUnlink(p)

SpecConc == InitConc /\ [][NextConc]_vars

\* ------------------------------------- a cache left to its sweeper (C6)
\* TTL is enabled.  The callers call every method, interleaved with the
\* goroutine and the clock as in Spec, and at some point return for good:
\* from then on no method is called.  The goroutine is scheduled fairly.
Retired == [Idle EXCEPT !.pc = "retired"]

\* the caller makes no further call
Retire(p) ==
  /\ fg[p].pc = "idle"
  /\ fg' = [fg EXCEPT ![p] = Retired]
  /\ UNCHANGED <<c, mutex, sw, now, last, lru, own, puts>>

AllRetired == \A p \in Callers : fg[p].pc = "retired"

InitEager ==
  /\ \E capacity \in 1..MaxCapacity, ttl \in 1..MaxTTL : c = NewWithTTL(capacity, ttl)
  /\ sw = SwIdle("start")
  /\ own = [p \in Procs |-> {}]
  /\ InitRest

NextEager ==
  \/ Foreground
  \/ \E p \in Callers : Retire(p)
  \/ Sweeper
  \/ ClockTick

SpecEager == InitEager /\ [][NextEager]_vars /\ WF_vars(Sweeper)

\* ------------------- the life of a cache: construction, use, Stop (C14, C17)
\* The caller's variable holds no cache until a constructor has returned
\* one; the arguments include the invalid ones.  After a panic nothing
\* runs.  The callers then put, read the size and stop, while the goroutine
\* sweeps.  The goroutine and a caller inside a method keep running, and
\* the goroutine is not starved of the mutex.
CapacityArgs == -1..MaxCapacity

TTLArgs == -1..MaxTTL

\* no cache: a value no constructor returns (capacity 0)
NoCache == [New(1) EXCEPT !.capacity = 0]

Constructed == c # NoCache

CallNew(capacity) ==
  /\ ~Constructed /\ last.op = "none"
  /\ IF NewPanics(capacity)
     THEN /\ last' = Done("panic", "New", capacity, "")
          /\ UNCHANGED <<c, sw, puts>>
     ELSE /\ c' = New(capacity)
          /\ sw' = SwIdle("absent")
          /\ last' = Done("New", "", capacity, "")
          /\ puts' = [only |-> TRUE, keys |-> {}]
  /\ UNCHANGED <<mutex, fg, now, lru, own>>

\* line 65 starts the goroutine
CallNewWithTTL(capacity, ttlSeconds) ==
  /\ ~Constructed /\ last.op = "none"
  /\ IF NewWithTTLPanics(capacity, ttlSeconds)
     THEN /\ last' = Done("panic", "NewWithTTL", ttlSeconds, "")
          /\ UNCHANGED <<c, sw, puts>>
     ELSE /\ c' = NewWithTTL(capacity, ttlSeconds)
          /\ sw' = SwIdle("start")
          /\ last' = Done("NewWithTTL", "", ttlSeconds, "")
          /\ puts' = [only |-> ttlSeconds = 0, keys |-> {}]
  /\ UNCHANGED <<mutex, fg, now, lru, own>>

InitLife ==
  /\ c = NoCache
  /\ sw = SwIdle("absent")
  /\ own = [p \in Procs |-> {}]
  /\ InitRest

\* the rest of a method once its caller holds the mutex
Body(p) ==
  \/ \E key \in Keys, value \in Values : CallPut(p, key, value)
  \/ PutCheck(p)
  \/ PutUnlink(p)
  \/ CallSize(p)
  \/ CallStop(p)

\* the steps of the goroutine that do not wait for the mutex
SwRun == SwStart \/ SwLoop \/ SwWake \/ SwTick

NextLife ==
  \/ \E capacity \in CapacityArgs : CallNew(capacity)
  \/ \E capacity \in CapacityArgs, ttlSeconds \in TTLArgs :
       CallNewWithTTL(capacity, ttlSeconds)
  \/ /\ Constructed
     /\ \/ \E p \in Callers : Lock(p) \/ Body(p)
        \/ Sweeper
        \/ ClockTick

SpecLife ==
  /\ InitLife /\ [][NextLife]_vars
  /\ WF_vars(Constructed /\ SwRun)
  /\ SF_vars(Constructed /\ SwLock)
  /\ \A p \in Callers : WF_vars(Constructed /\ Body(p))

\* ================================================================ claims
\* views of the recency list, head first
ListKeys(S) == LET W == Walk(S) IN [i \in 1..Len(W) |-> S.heap[W[i]].key]

Entries(S) ==
  LET W == Walk(S)
  IN  [i \in 1..Len(W) |-> [key        |-> S.heap[W[i]].key,
                            value      |-> S.heap[W[i]].value,
                            expireTime |-> S.heap[W[i]].expireTime]]

Without(l, k) == SelectSeq(l, LAMBDA x : x # k)

Min(a, b) == IF a <= b THEN a ELSE b

Expired(S, k, t) == S.hash[k] # 0 /\ S.heap[S.hash[k]].expireTime <= t

\* the value of the most recent Put of k, for a key the history holds
LastPut(l, k) == l[CHOOSE i \in 1..Len(l) : l[i].key = k].value

\* the list and the index describe the same entries, and the links are sound
Consistent(S) ==
  LET W == Walk(S)
      n == Len(W)
  IN  /\ (n = 0) <=> (S.head = 0 /\ S.tail = 0)
      /\ (S.head = 0) <=> (S.tail = 0)
      /\ n > 0 => S.tail = W[n] /\ S.heap[W[n]].next = 0
      /\ \A i \in 1..n : S.heap[W[i]].prev = IF i = 1 THEN 0 ELSE W[i - 1]
      /\ \A i \in 1..n : S.hash[S.heap[W[i]].key] = W[i]
      /\ \A k \in KeysOf(S) : \E i \in 1..n : W[i] = S.hash[k]
      /\ \A i, j \in 1..n : i # j => S.heap[W[i]].key # S.heap[W[j]].key

\* C1: whenever no operation is in progress (the mutex is free), every entry
\* on the list is in the index under its own key, every entry of the index
\* is on the list, no key is on the list twice, the list is empty exactly
\* when head and tail are nil, and prev and next are inverse links with
\* only the head lacking a prev and only the tail lacking a next.
C1_IndexListConsistent == mutex = "free" => Consistent(c)

\* a Put has evicted an entry and left two entries on the list
C1_Witness ==
  /\ mutex = "free"
  /\ last.op = "Put" /\ last.evicted # ""
  /\ Len(Walk(c)) = 2 /\ c.head # c.tail

\* C2: whenever the mutex is free, the length of the list, the size of the
\* index and the result of Size() are one number, and it is at most the
\* capacity; with TTL enabled or disabled.
C2_SizeBounded ==
  mutex = "free" =>
    /\ Len(Walk(c)) = Cardinality(KeysOf(c))
    /\ Cardinality(KeysOf(c)) = Size(c)
    /\ Size(c) <= Capacity(c)

\* a full cache with TTL, from which the sweeper has just removed an entry
\* and to which nothing has been added since
C2_Witness ==
  /\ mutex = "free"
  /\ TTLSeconds(c) > 0
  /\ last.op = "Tick" /\ last.ret = 1
  /\ Size(c) = Capacity(c) - 1 /\ Size(c) > 0

\* C3: a Put of a new key that finds the cache holding capacity entries
\* evicts exactly one entry: the one touched least recently (by a Get that
\* found it or a Put of its key) among the entries present, never the key
\* being put; the cache holds capacity entries afterwards.
C3_EvictsLeastRecentlyTouched ==
  [][\A p \in Procs :
       /\ (PutCheck(p) /\ fg[p].size0 = Capacity(c)) => fg'[p].pc = "put_unlink"
       /\ PutUnlink(p) =>
            LET victim == c.heap[fg[p].last].key
            IN  /\ fg[p].size0 = Capacity(c)
                /\ victim = lru[Len(lru)].key
                /\ victim # fg[p].key
                /\ KeysOf(c') = KeysOf(c) \ {victim}
                /\ fg[p].key \in KeysOf(c')
                /\ Size(c') = Capacity(c)]_vars

\* capacity 2 holding A and B, A touched after B: Put(C) has evicted B
C3_Witness ==
  /\ mutex = "free"
  /\ Capacity(c) = 2
  /\ last.op = "Put" /\ last.key = "C" /\ last.evicted = "B"
  /\ ListKeys(c) = <<"C", "A">>

\* C4: Get of a key in the cache returns the value of the most recent Put of
\* that key and leaves its entry at the head, the other entries in their
\* order and Size as they were; a second Get of the key right afterwards
\* returns the same value and changes nothing.
C4_GetReturnsLastPutAndPromotes ==
  [][\A p \in Procs, k \in Keys :
       (CallGet(p, k) /\ c.hash[k] # 0) =>
         /\ last'.ret = LastPut(lru, k)
         /\ ListKeys(c') = <<k>> \o Without(ListKeys(c), k)
         /\ c'.hash[k] = c'.head
         /\ Size(c') = Size(c)
         /\ Get(c', k).ret = last'.ret
         /\ Get(c', k).c = c']_vars

\* a Get has found a key that was not at the head and has returned its value
C4_Witness ==
  /\ mutex = "free"
  /\ last.op = "Get" /\ last.ret = 2
  /\ Size(c) = 2
  /\ c.heap[c.head].key = last.key
  /\ c.heap[c.tail].value = 1

\* C5: with TTL enabled, Get of a key whose expireTime has been reached
\* returns nil and removes the entry from the list and the index, so that
\* Size drops by one, whether or not the sweeper has run.
C5_GetExpiresLazily ==
  [][\A p \in Procs, k \in Keys :
       (CallGet(p, k) /\ TTLSeconds(c) > 0 /\ Expired(c, k, now)) =>
         /\ last'.ret = 0
         /\ c'.hash[k] = 0
         /\ ListKeys(c') = Without(ListKeys(c), k)
         /\ Size(c') = Size(c) - 1]_vars

\* C6: with TTL enabled and Stop not called, once the callers make no
\* further call and every entry has expired, the sweeper eventually empties
\* the cache, and the cache stays empty.
AllExpired == \A k \in KeysOf(c) : Expired(c, k, now)

C6_SweeperEmptiesExpiredCache ==
  /\ (AllRetired /\ ~c.stopped /\ AllExpired) ~> (Size(c) = 0)
  /\ [][(AllRetired /\ Size(c) = 0) => Size(c') = 0]_vars

\* after the last call a tick has removed the last two entries of the cache
C6_Witness ==
  /\ AllRetired
  /\ ~c.stopped
  /\ last.op = "Tick" /\ last.ret = 2
  /\ Size(c) = 0

\* C7: once Stop has returned, no step of the sweeper changes the cache, at
\* whatever point of its start, sleep or tick the sweeper was: the entries,
\* expired or not, stay until a foreground operation removes them.
C7_NoSweepAfterStop ==
  [][c.stopped => /\ Sweeper => c' = c
                  /\ mutex \notin Procs => c' = c]_vars

\* after Stop the sweeper has taken the lock for a tick, has seen the flag,
\* and an expired entry is still in the cache
C7_Witness ==
  /\ c.stopped
  /\ sw.pc = "loop" /\ sw.stopped
  /\ \E k \in Keys : Expired(c, k, now)

\* C8: callers that put pairwise disjoint keys concurrently, TTL disabled:
\* when all calls have completed, Size is the number of distinct keys put,
\* capped at the capacity, and the walk from head by next-links reaches
\* the tail in exactly Size steps.
AllReturned == mutex = "free" /\ \A p \in Procs : fg[p].pc = "idle"

C8_ConcurrentPutsKeepList ==
  AllReturned =>
    LET W == Walk(c)
    IN  /\ Size(c) = Min(Cardinality(puts.keys), Capacity(c))
        /\ Len(W) = Size(c)
        /\ Size(c) = 0 => c.head = 0 /\ c.tail = 0
        /\ Size(c) > 0 => W[Len(W)] = c.tail /\ c.heap[c.tail].next = 0

\* both callers have put all their keys, more keys than the cache holds
C8_Witness ==
  /\ AllReturned
  /\ \A p \in Procs : own[p] # {}
  /\ puts.keys = UNION {own[p] : p \in Procs}
  /\ Cardinality(puts.keys) > Capacity(c)
  /\ Size(c) = Capacity(c)

\* C9: Size after Put(k, v) is min(Size before + (1 if k is new, else 0),
\* capacity): a Put of an existing key changes neither Size nor the keys, a
\* Put of a new key evicts one entry when the cache was at capacity and
\* none otherwise; so on a cache without TTL on which only Puts (and reads)
\* have been made, of at most capacity distinct keys, Size is the number
\* of distinct keys put.
C9_PutSize ==
  /\ [](mutex = "free" =>
          /\ \A k \in Keys, v \in Values :
               Size(Put(c, k, v, alloc(c, {}), now))
                 = Min(Size(c) + (IF c.hash[k] = 0 THEN 1 ELSE 0), Capacity(c))
          /\ (puts.only /\ Cardinality(puts.keys) <= Capacity(c))
               => Size(c) = Cardinality(puts.keys))
  /\ [][\A p \in Procs :
          /\ \A k \in Keys, v \in Values :
               (CallPut(p, k, v) /\ c.hash[k] # 0) =>
                 /\ mutex' = "free"
                 /\ Size(c') = Size(c)
                 /\ KeysOf(c') = KeysOf(c)
          /\ (PutCheck(p) /\ mutex' = "free") =>
                 /\ fg[p].size0 < Capacity(c)
                 /\ Size(c') = fg[p].size0 + 1
                 /\ KeysOf(c') = KeysOf(c)
          /\ PutUnlink(p) =>
                 /\ fg[p].size0 = Capacity(c)
                 /\ Size(c') = Capacity(c)
                 /\ Cardinality(KeysOf(c) \ KeysOf(c')) = 1]_vars

\* only Puts so far, of as many distinct keys as the cache holds, none evicted
C9_Witness ==
  /\ mutex = "free"
  /\ puts.only /\ Cardinality(puts.keys) = 2
  /\ last.op = "Put" /\ last.evicted = ""
  /\ Size(c) = 2

\* C10: Get and Remove of a key that is not in the index return nil and
\* leave the cache as it was: keys, values, order and Size.
C10_MissChangesNothing ==
  [][\A p \in Procs, k \in Keys :
       (c.hash[k] = 0 /\ (CallGet(p, k) \/ CallRemove(p, k))) =>
         /\ last'.ret = 0
         /\ c' = c]_vars

\* a Remove of an absent key has returned nil on a cache holding two entries
C10_Witness ==
  /\ mutex = "free"
  /\ last.op = "Remove" /\ last.ret = 0
  /\ last.key \notin KeysOf(c)
  /\ Size(c) = 2

\* C11: Remove of a key in the index returns the value of the most recent Put
\* of that key, whether or not its expireTime has been reached; the entry
\* leaves the list and the index, Size drops by one, a Get of the key right
\* afterwards returns nil, and the other entries keep their order.
C11_RemoveHit ==
  [][\A p \in Procs, k \in Keys :
       (CallRemove(p, k) /\ c.hash[k] # 0) =>
         /\ last'.ret = LastPut(lru, k)
         /\ last'.ret = c.heap[c.hash[k]].value
         /\ c'.hash[k] = 0
         /\ KeysOf(c') = KeysOf(c) \ {k}
         /\ Size(c') = Size(c) - 1
         /\ Entries(c') = SelectSeq(Entries(c), LAMBDA x : x.key # k)
         /\ Get(c', k).ret = 0
         /\ Consistent(c')]_vars

\* a Remove has taken an entry that had expired from between two others and
\* has returned its value; the two others are left, head and tail
C11_Witness ==
  /\ mutex = "free"
  /\ last.op = "Remove" /\ last.ret = 2 /\ last.expired /\ last.pos = 2
  /\ last.key \notin KeysOf(c)
  /\ Size(c) = 2 /\ c.head # c.tail

\* C12: Clear leaves head and tail nil and the index empty, so that Size is 0
\* and Get of every key returns nil; capacity, ttlSeconds and stopped are
\* what they were; a Put into the cleared cache gives a sound list of one
\* entry.
C12_Clear ==
  [][\A p \in Procs :
       CallClear(p) =>
         /\ Size(c') = 0
         /\ c'.head = 0 /\ c'.tail = 0
         /\ \A k \in Keys : Get(c', k).ret = 0 /\ Get(c', k).c = c'
         /\ Capacity(c') = Capacity(c)
         /\ TTLSeconds(c') = TTLSeconds(c)
         /\ c'.stopped = c.stopped
         /\ Consistent(c')
         /\ \A k \in Keys, v \in Values :
              LET S == Put(c', k, v, alloc(c', {}), now)
              IN  /\ Consistent(S)
                  /\ ListKeys(S) = <<k>>
                  /\ Get(S, k).ret = v]_vars

\* a Clear has discarded two entries of a stopped cache with TTL
C12_Witness ==
  /\ mutex = "free"
  /\ last.op = "Clear" /\ last.ret = 2
  /\ c.stopped /\ TTLSeconds(c) > 0
  /\ Size(c) = 0

\* C13: NewWithTTL(capacity, 0) returns the cache New(capacity) returns, and
\* its goroutine returns at once: it never takes the mutex and never sweeps.
\* Every step of such a cache is a step of the foreground callers or of the
\* clock, or changes nothing but the goroutine's position, so its behaviours
\* are those of the cache of New.  No entry carries an expiry time, and the
\* result of an operation does not depend on the clock.
C13_NoTTLIsNew ==
  /\ [](\A capacity \in 1..MaxCapacity : NewWithTTL(capacity, 0) = New(capacity))
  /\ [](TTLSeconds(c) = 0 =>
          /\ sw.pc \in {"absent", "start", "done"}
          /\ mutex # "sweeper"
          /\ \A k \in KeysOf(c) : c.heap[c.hash[k]].expireTime = 0
          /\ mutex = "free" =>
               \A k \in Keys, v \in Values, t \in 1..MaxClock :
                 Put(c, k, v, alloc(c, {}), t) = Put(c, k, v, alloc(c, {}), now))
  /\ [][TTLSeconds(c) = 0 =>
          \/ Foreground
          \/ ClockTick
          \/ UNCHANGED <<c, mutex, fg, now, last, lru, own, puts>>]_vars

\* a cache of NewWithTTL(capacity, 0) whose goroutine has returned still
\* holds its two entries and answers a Get when the clock has run out
C13_Witness ==
  /\ TTLSeconds(c) = 0
  /\ sw.pc = "done"
  /\ now = MaxClock
  /\ last.op = "Get" /\ last.ret # 0
  /\ Size(c) = 2

\* C14: New with capacity <= 0, and NewWithTTL with capacity <= 0 or
\* ttlSeconds < 0, panic: no cache is returned and no goroutine started.
\* With any other arguments the constructor returns an empty cache whose
\* Capacity() is the capacity given and whose TTLSeconds() is the ttlSeconds
\* given, 0 for New; NewWithTTL has started the goroutine, New has not.
C14_ConstructorsPanic ==
  [][/\ \A capacity \in CapacityArgs :
          CallNew(capacity) =>
            IF capacity <= 0
            THEN last'.op = "panic" /\ ~Constructed' /\ sw'.pc = "absent"
            ELSE /\ last'.op = "New" /\ Constructed'
                 /\ Size(c') = 0 /\ c'.head = 0 /\ c'.tail = 0
                 /\ Capacity(c') = capacity
                 /\ TTLSeconds(c') = 0
                 /\ ~c'.stopped
                 /\ sw'.pc = "absent"
     /\ \A capacity \in CapacityArgs, ttlSeconds \in TTLArgs :
          CallNewWithTTL(capacity, ttlSeconds) =>
            IF capacity <= 0 \/ ttlSeconds < 0
            THEN last'.op = "panic" /\ ~Constructed' /\ sw'.pc = "absent"
            ELSE /\ last'.op = "NewWithTTL" /\ Constructed'
                 /\ Size(c') = 0 /\ c'.head = 0 /\ c'.tail = 0
                 /\ Capacity(c') = capacity
                 /\ TTLSeconds(c') = ttlSeconds
                 /\ ~c'.stopped
                 /\ sw'.pc = "start"]_vars

\* NewWithTTL has panicked on ttlSeconds = -1
C14_Witness ==
  /\ last.op = "panic" /\ last.key = "NewWithTTL" /\ last.ret = -1
  /\ ~Constructed
  /\ sw.pc = "absent"

\* C15: Stop sets the stopped flag and changes nothing else: index, list,
\* values, expiry times, capacity and ttlSeconds stay; a second Stop
\* changes nothing at all; and on a cache without TTL each of Get, Put,
\* Remove, Size and Clear gives after Stop what it gives without Stop, the
\* flag apart.
C15_StopOnlySetsFlag ==
  /\ [][\A p \in Procs :
          CallStop(p) =>
            /\ c' = [c EXCEPT !.stopped = TRUE]
            /\ Entries(c') = Entries(c)
            /\ c'.hash = c.hash /\ c'.head = c.head /\ c'.tail = c.tail
            /\ Capacity(c') = Capacity(c) /\ TTLSeconds(c') = TTLSeconds(c)
            /\ Stop(c') = c'
            /\ c.stopped => c' = c]_vars
  /\ []((mutex = "free" /\ TTLSeconds(c) = 0) =>
          /\ Size(Stop(c)) = Size(c)
          /\ Clear(Stop(c)) = Stop(Clear(c))
          /\ \A k \in Keys :
               /\ Get(Stop(c), k).ret = Get(c, k).ret
               /\ Get(Stop(c), k).c = Stop(Get(c, k).c)
               /\ Remove(Stop(c), k).ret = Remove(c, k).ret
               /\ Remove(Stop(c), k).c = Stop(Remove(c, k).c)
               /\ \A v \in Values :
                    Put(Stop(c), k, v, alloc(c, {}), now)
                      = Stop(Put(c, k, v, alloc(c, {}), now)))

\* a second Stop has returned: the goroutine had seen the flag of the first
\* under the mutex before this one took it; the entries are still there
C15_Witness ==
  /\ mutex = "free"
  /\ last.op = "Stop"
  /\ c.stopped /\ sw.stopped
  /\ Size(c) = 2

\* C16: a tick that finds stopped unset removes, in one pass over the list,
\* every entry whose expireTime is at most the now it sampled and no other
\* entry, wherever the expired entries are on the list; the entries
\* that stay keep their order, and list and index agree when the tick
\* releases the mutex.
Survivors(S, t) == SelectSeq(Entries(S), LAMBDA x : x.expireTime > t)

C16_TickRemovesExactlyExpired ==
  [][(SwTick /\ ~c.stopped) =>
       /\ Entries(c') = Survivors(c, sw.now)
       /\ KeysOf(c') = {k \in KeysOf(c) : ~Expired(c, k, sw.now)}
       /\ Consistent(c')
       /\ mutex' = "free"]_vars

\* a tick has removed one expired entry from between two entries that have
\* not expired, and has left those two
C16_Witness ==
  /\ mutex = "free"
  /\ TTLSeconds(c) = 1
  /\ last.op = "Tick" /\ last.ret = 1 /\ last.pos = 2
  /\ Size(c) = 2 /\ c.head # c.tail
  /\ c.heap[c.head].expireTime > now /\ c.heap[c.tail].expireTime > now

\* C17: the goroutine of a cache with TTL returns only after it has seen the
\* stopped flag: while stopped is unset it has not returned; once Stop has
\* set the flag it eventually returns, wherever it was (start, sleep,
\* waiting for the mutex, tick), and having returned it never runs again.
C17_SweeperExitsOnlyOnStop ==
  /\ []((Constructed /\ TTLSeconds(c) > 0 /\ ~c.stopped) => sw.pc \notin {"done", "absent"})
  /\ (Constructed /\ TTLSeconds(c) > 0 /\ c.stopped) ~> (sw.pc = "done")
  /\ [][sw.pc = "done" => sw' = sw]_vars

\* the goroutine of a stopped cache with TTL has returned after a tick that
\* saw the flag; an entry is still in the cache
C17_Witness ==
  /\ Constructed /\ TTLSeconds(c) > 0
  /\ c.stopped
  /\ sw.pc = "done"
  /\ Size(c) > 0

\* C18: a caller is inside a method only while it holds the mutex, and the
\* goroutine is inside a tick only while it holds it, so at most one of them
\* is in a critical section; the goroutine does not hold the mutex while it
\* starts, sleeps or waits; and every step that reads or writes head, tail,
\* the index, an entry or the stopped flag is taken by the holder of the
\* mutex.  The last fails for the goroutine's first step: line 70 reads
\* c.stopped without the mutex.
C18_MutualExclusion ==
  /\ [](/\ \A p \in Procs : fg[p].pc # "idle" => mutex = p
        /\ sw.pc = "tick" <=> mutex = "sweeper")
  /\ [][/\ \A p \in Procs :
             (\/ \E k \in Keys : CallGet(p, k) \/ CallRemove(p, k)
              \/ \E k \in Keys, v \in Values : CallPut(p, k, v)
              \/ PutCheck(p) \/ PutUnlink(p)
              \/ CallSize(p) \/ CallClear(p) \/ CallStop(p)) => mutex = p
        /\ SwTick => mutex = "sweeper"
        /\ (SwStart /\ c.ttlSeconds # 0) => mutex = "sweeper"]_vars

\* C19: with TTL enabled, an entry that has expired and is still in the
\* cache counts: Size is at least the number of entries that have not
\* expired, and a Put of a new key that finds capacity entries evicts the
\* entry at the tail, the least recently touched, expired or not, while
\* every other entry, expired or not, stays.
Unexpired(S, t) == {k \in KeysOf(S) : S.heap[S.hash[k]].expireTime > t}

C19_ExpiredEntriesCount ==
  /\ [](Size(c) >= Cardinality(Unexpired(c, now)))
  /\ [][\A p \in Procs :
          TTLSeconds(c) > 0 =>
            /\ (PutCheck(p) /\ fg[p].size0 = Capacity(c)) =>
                 fg'[p].pc = "put_unlink" /\ fg'[p].last = c.tail
            /\ PutUnlink(p) =>
                 LET victim == c.heap[fg[p].last].key
                 IN  /\ fg[p].last = c.tail
                     /\ victim = lru[Len(lru)].key
                     /\ KeysOf(c') = KeysOf(c) \ {victim}
                     /\ Entries(c') = SelectSeq(Entries(c), LAMBDA x : x.key # victim)]_vars

\* a Put has just evicted an entry that had not expired, and an entry that
\* has expired is still in the full cache
C19_Witness ==
  /\ mutex = "free"
  /\ TTLSeconds(c) > 0
  /\ last.op = "Put" /\ last.evicted # "" /\ ~last.expired
  /\ c.heap[c.head].key = last.key
  /\ c.heap[c.head].expireTime = now + TTLSeconds(c)
  /\ \E k \in KeysOf(c) : Expired(c, k, now)
  /\ Size(c) = Capacity(c)

\* C20: with TTL enabled, a step changes the expireTime of a key in the
\* cache only if it is a Put of that key, which sets it to now + ttlSeconds,
\* for a new key and for an existing one; Get moves the entry to the head
\* and leaves its expireTime, so that a tick at or after that time removes
\* the entry however often it was read.  With TTL disabled expireTime
\* stays 0 and the goroutine never gets to compare it.
ExpireTime(S, k) == S.heap[S.hash[k]].expireTime

C20_ExpirySetOnlyByPut ==
  /\ [][\A k \in KeysOf(c') :
          IF \E p \in Procs, v \in Values : CallPut(p, k, v)
          THEN ExpireTime(c', k) = IF TTLSeconds(c) > 0 THEN now + TTLSeconds(c) ELSE 0
          ELSE k \in KeysOf(c) /\ ExpireTime(c', k) = ExpireTime(c, k)]_vars
  /\ [][\A p \in Procs, k \in KeysOf(c) :
          CallGet(p, k) => /\ c'.head = c'.hash[k]
                           /\ ExpireTime(c', k) = ExpireTime(c, k)]_vars
  /\ [][(SwTick /\ ~c.stopped) =>
          \A k \in KeysOf(c) : ExpireTime(c, k) <= sw.now => k \notin KeysOf(c')]_vars
  /\ [](TTLSeconds(c) = 0 =>
          /\ \A k \in KeysOf(c) : ExpireTime(c, k) = 0
          /\ sw.pc \in {"absent", "start", "done"})

\* a Get has returned the value of an entry whose expireTime had been
\* reached, has moved it to the head, and the expireTime is what it was
C20_Witness ==
  /\ mutex = "free"
  /\ TTLSeconds(c) > 0
  /\ last.op = "Get" /\ last.ret # 0
  /\ c.head = c.hash[last.key] /\ c.head # c.tail
  /\ ExpireTime(c, last.key) <= now

====
